---------------------------- MODULE Spec2Model ----------------------------
(***************************************************************************)
(* A model of the rinha tree-walking interpreter (src/src/main.rs,         *)
(* src/src/error.rs): the value model, the Scope chain with its shared     *)
(* frames, eval as a small-step machine whose continuation stack stands    *)
(* for the Rust call stack of the recursive eval, and main.                *)
(***************************************************************************)
EXTENDS Integers, Sequences, FiniteSets, TLC

VARIABLES
    input,           \* main: what was read from the file / stdin
    phase,           \* main: "start" | "eval" | "exited"
    ctrl,            \* eval: the call in progress or the value it returned
    kont,            \* eval: the pending callers (Rust stack), innermost first
    frames,          \* heap: every Rc<RefCell<HashMap<String, Val>>> allocated
    out,             \* standard output written so far
    outcome,         \* how the run ended
    exitStatus,      \* process exit status
    printed,         \* history: the values print has written, in order
    overflowChecks,  \* build: whether integer overflow checks are compiled in
    bop, blhs, brhs, bres,   \* one binary operation applied to two values
    scopes, writes   \* Scope test bench: the scopes made, and what was set through each

vars == <<input, phase, ctrl, kont, frames, out, outcome, exitStatus, printed,
          overflowChecks, bop, blhs, brhs, bres, scopes, writes>>

idle == <<overflowChecks, bop, blhs, brhs, bres, scopes, writes>>
interpVars == <<input, phase, ctrl, kont, out, outcome, exitStatus, printed>>
binVars == <<bop, blhs, brhs, bres>>
scopeVars == <<scopes, writes>>

None == [tag |-> "None"]
Idle == [mode |-> "idle"]

---------------------------------------------------------------------------
(* Locations and terms (struct Location, enum Term and its variants).      *)

Loc(s, e) == [start |-> s, end |-> e]

TInt(v, l) == [kind |-> "Int", value |-> v, location |-> l]
TStr(v, l) == [kind |-> "Str", value |-> v, location |-> l]
TBool(v, l) == [kind |-> "Bool", value |-> v, location |-> l]
TPrint(v, l) == [kind |-> "Print", value |-> v, location |-> l]
TBinary(lhs, op, rhs, l) ==
    [kind |-> "Binary", lhs |-> lhs, op |-> op, rhs |-> rhs, location |-> l]
TIf(c, t, o, l) ==
    [kind |-> "If", condition |-> c, then |-> t, otherwise |-> o, location |-> l]
Parameter(text, l) == [text |-> text, location |-> l]
TLet(name, v, next, l) ==
    [kind |-> "Let", name |-> name, value |-> v, next |-> next, location |-> l]
TVar(text, l) == [kind |-> "Var", text |-> text, location |-> l]
TFunction(params, v, l) ==
    [kind |-> "Function", parameters |-> params, value |-> v, location |-> l]
TCall(callee, args, l) ==
    [kind |-> "Call", callee |-> callee, arguments |-> args, location |-> l]
TTuple(a, b, l) == [kind |-> "Tuple", first |-> a, second |-> b, location |-> l]
TFirst(v, l) == [kind |-> "First", value |-> v, location |-> l]
TSecond(v, l) == [kind |-> "Second", value |-> v, location |-> l]

BinaryOps == {"Add", "Sub", "Mul", "Div", "Rem", "Eq", "Neq",
              "Lt", "Gt", "Lte", "Gte", "And", "Or"}

---------------------------------------------------------------------------
(* Values (enum Val).  A closure's env is a Scope; cap is history: the     *)
(* scope the function literal was evaluated in.                            *)

VInt(i) == [tag |-> "Int", v |-> i]
VBool(b) == [tag |-> "Bool", v |-> b]
VStr(s) == [tag |-> "Str", v |-> s]
VTuple(a, b) == [tag |-> "Tuple", fst |-> a, snd |-> b]
VClosure(fun, env, cap) == [tag |-> "Closure", fun |-> fun, env |-> env, cap |-> cap]

RECURSIVE Display(_)
Display(v) ==
    CASE v.tag = "Int" -> ToString(v.v)
      [] v.tag = "Bool" -> (IF v.v THEN "true" ELSE "false")
      [] v.tag = "Str" -> v.v
      [] v.tag = "Tuple" -> "(" \o Display(v.fst) \o ", " \o Display(v.snd) \o ")"
      [] v.tag = "Closure" -> "<#closure>"

---------------------------------------------------------------------------
(* RuntimeError and its constructors (src/src/error.rs).                   *)

RuntimeError_new(message, location) ==
    [kind |-> "ArgumentError", message |-> message, location |-> location]

unknow_identifier(var) ==
    [kind |-> "UnknowIdentifier", message |-> "identificador não encontrado",
     location |-> var.location]

division_by_zero(loc) ==
    [kind |-> "DivisionByZero", message |-> "divisão por zero", location |-> loc]

invalid_binary_operation(loc) ==
    [kind |-> "InvalidBinaryOperation", message |-> "operação inválida",
     location |-> loc]

invalid_number_of_arguments(fun, loc) ==
    [kind |-> "InvalidNumberOfArguments",
     message |-> "número de argumentos inválidos", location |-> loc]

ErrorKinds == {"ArgumentError", "DivisionByZero", "UnknowIdentifier",
               "InvalidBinaryOperation", "InvalidNumberOfArguments"}

Ok(v) == [tag |-> "Ok", val |-> v]
Err(e) == [tag |-> "Err", err |-> e]
Panic(m) == [tag |-> "Panic", message |-> m]

---------------------------------------------------------------------------
(* i32 arithmetic.  Every intermediate stays inside the 32-bit range.      *)

MaxI32 == 2147483647
MinI32 == -MaxI32 - 1

AddOverflows(a, b) ==
    \/ b > 0 /\ a > MaxI32 - b
    \/ b < 0 /\ a < MinI32 - b

\* a + b reduced modulo 2^32 into MinI32..MaxI32
WrapAdd(a, b) ==
    IF b > 0 /\ a > MaxI32 - b THEN (a - MaxI32) + (b - MaxI32) - 2
    ELSE IF b < 0 /\ a < MinI32 - b THEN (a - MinI32) + (b - MinI32)
    ELSE a + b

SubOverflows(a, b) ==
    \/ b < 0 /\ a > MaxI32 + b
    \/ b > 0 /\ a < MinI32 + b

WrapSub(a, b) ==
    IF b < 0 /\ a > MaxI32 + b THEN (a - MaxI32) - (b - MinI32) - 1
    ELSE IF b > 0 /\ a < MinI32 + b THEN (a - MinI32) - (b - MaxI32) + 1
    ELSE a - b

\* a * d reduced modulo 2^32, for 0 <= d <= 256: a is split in 16-bit halves
WrapMulSmall(a, d) ==
    LET lo == (a % 65536) * d
        hi == ((a \div 65536) * d) % 65536
    IN  WrapAdd((IF hi >= 32768 THEN hi - 65536 ELSE hi) * 65536, lo)

\* a * b reduced modulo 2^32, one base-256 digit of b at a time
RECURSIVE WrapMul(_, _)
WrapMul(a, b) ==
    IF b = 0 THEN 0
    ELSE IF b = -1 THEN WrapSub(0, a)
    ELSE LET h == WrapMul(a, b \div 256)
         IN  WrapAdd(WrapMulSmall(h, 256), WrapMulSmall(a, b % 256))

\* a / b of Rust (truncating), for b # 0 and (a, b) # (MinI32, -1)
TruncDiv(a, b) ==
    LET pos(x, p) == IF x % p = 0 \/ x >= 0 THEN x \div p ELSE (x \div p) + 1
    IN  IF b > 0 THEN pos(a, b)
        ELSE IF b = MinI32 THEN (IF a = MinI32 THEN 1 ELSE 0)
        ELSE -pos(a, -b)

\* a % b of Rust (sign of the dividend), same domain
TruncRem(a, b) == a - b * TruncDiv(a, b)

MulOverflows(a, b) ==
    /\ a # 0
    /\ b # 0
    /\ \/ a = -1 /\ b = MinI32
       \/ b = -1 /\ a = MinI32
       \/ /\ a # -1
          /\ b # -1
          /\ TruncDiv(WrapMul(a, b), a) # b

\* a + b, a - b, a * b on i32: a panic when overflow checks are compiled in
\* and the result does not fit, the wrapped result otherwise
i32_add(a, b, oc) ==
    IF AddOverflows(a, b) /\ oc THEN Panic("attempt to add with overflow")
    ELSE Ok(VInt(WrapAdd(a, b)))

i32_sub(a, b, oc) ==
    IF SubOverflows(a, b) /\ oc THEN Panic("attempt to subtract with overflow")
    ELSE Ok(VInt(WrapSub(a, b)))

i32_mul(a, b, oc) ==
    IF MulOverflows(a, b) /\ oc THEN Panic("attempt to multiply with overflow")
    ELSE Ok(VInt(WrapMul(a, b)))

\* a / b: division by zero and MinI32 / -1 panic in every build
i32_div(a, b) ==
    IF b = 0 THEN Panic("attempt to divide by zero")
    ELSE IF a = MinI32 /\ b = -1 THEN Panic("attempt to divide with overflow")
    ELSE Ok(VInt(TruncDiv(a, b)))

i32_rem(a, b) ==
    IF b = 0
    THEN Panic("attempt to calculate the remainder with a divisor of zero")
    ELSE IF a = MinI32 /\ b = -1
    THEN Panic("attempt to calculate the remainder with overflow")
    ELSE Ok(VInt(TruncRem(a, b)))

---------------------------------------------------------------------------
(* eval, Term::Binary: the operator applied to two evaluated operands.     *)

BothInt(lhs, rhs) == lhs.tag = "Int" /\ rhs.tag = "Int"
BothBool(lhs, rhs) == lhs.tag = "Bool" /\ rhs.tag = "Bool"

BinaryAdd(lhs, rhs, loc, oc) ==
    IF BothInt(lhs, rhs) THEN i32_add(lhs.v, rhs.v, oc)
    ELSE Ok(VStr(Display(lhs) \o Display(rhs)))

\* (Val::Int(_), Val::Int(0)) regardless of what the left operand is
BinaryDivZeroFirst(lhs, rhs, loc) ==
    IF rhs.tag = "Int" /\ rhs.v = 0 THEN Err(division_by_zero(loc))
    ELSE IF BothInt(lhs, rhs) THEN i32_div(lhs.v, rhs.v)
    ELSE Err(invalid_binary_operation(loc))

BinaryDiv(lhs, rhs, loc) ==
    IF BothInt(lhs, rhs) /\ rhs.v = 0 THEN Err(division_by_zero(loc))
    ELSE IF BothInt(lhs, rhs) THEN i32_div(lhs.v, rhs.v)
    ELSE Err(invalid_binary_operation(loc))

BinaryEq(lhs, rhs, loc, negate) ==
    IF lhs.tag = rhs.tag /\ lhs.tag \in {"Int", "Bool", "Str"}
    THEN Ok(VBool((lhs.v = rhs.v) # negate))
    ELSE Err(invalid_binary_operation(loc))

BinaryResult(op, lhs, rhs, loc, oc) ==
    LET int(r) == IF BothInt(lhs, rhs) THEN r
                  ELSE Err(invalid_binary_operation(loc))
        bool(b) == IF BothBool(lhs, rhs) THEN Ok(VBool(b))
                   ELSE Err(invalid_binary_operation(loc))
    IN  CASE op = "Add" -> BinaryAdd(lhs, rhs, loc, oc)
          [] op = "Sub" -> int(i32_sub(lhs.v, rhs.v, oc))
          [] op = "Mul" -> int(i32_mul(lhs.v, rhs.v, oc))
          [] op = "Div" -> BinaryDiv(lhs, rhs, loc)
          [] op = "Rem" -> int(i32_rem(lhs.v, rhs.v))
          [] op = "And" -> bool(lhs.v /\ rhs.v)
          [] op = "Or" -> bool(lhs.v \/ rhs.v)
          [] op = "Lt" -> int(Ok(VBool(lhs.v < rhs.v)))
          [] op = "Lte" -> int(Ok(VBool(lhs.v <= rhs.v)))
          [] op = "Gt" -> int(Ok(VBool(lhs.v > rhs.v)))
          [] op = "Gte" -> int(Ok(VBool(lhs.v >= rhs.v)))
          [] op = "Eq" -> BinaryEq(lhs, rhs, loc, FALSE)
          [] op = "Neq" -> BinaryEq(lhs, rhs, loc, TRUE)

---------------------------------------------------------------------------
(* Scope: a chain of frames, current frame first.  A frame is an index     *)
(* into the heap `frames`; the Rc of a frame is shared by every chain that *)
(* holds its index.                                                        *)

EmptyFrame == << >>

\* Scope::default(): no parent, a new empty current frame
Scope_default(fr) ==
    [frames |-> Append(fr, EmptyFrame), scope |-> <<Len(fr) + 1>>]

\* a clone that shares the current frame instead of opening a new one
Scope_cloneShared(fr, s) == [frames |-> fr, scope |-> s]

\* a clone whose parent is a copy of the current frame's map
Scope_cloneCopied(fr, s) ==
    [frames |-> Append(Append(fr, fr[s[1]]), EmptyFrame),
     scope |-> <<Len(fr) + 2, Len(fr) + 1>> \o Tail(s)]

\* impl Clone for Scope: a new empty current frame whose parent holds the
\* old current frame (the same Rc) and the old parent
Scope_clone(fr, s) ==
    [frames |-> Append(fr, EmptyFrame), scope |-> <<Len(fr) + 1>> \o s]

\* a set that writes the outermost frame of the chain
Scope_setRoot(fr, s, var, val) ==
    [fr EXCEPT ![s[Len(s)]] = (var :> val) @@ @]

\* Scope::set: insert into the current frame
Scope_set(fr, s, var, val) ==
    [fr EXCEPT ![s[1]] = (var :> val) @@ @]

\* the stored value Scope::get finds: the nearest frame that has var
RECURSIVE Scope_find(_, _, _)
Scope_find(fr, s, var) ==
    IF s = << >> THEN None
    ELSE IF var \in DOMAIN fr[s[1]] THEN fr[s[1]][var]
    ELSE Scope_find(fr, Tail(s), var)

\* a Val clone that copies the closure's Scope field by field
CloneValShared(fr, v) == [frames |-> fr, val |-> v]

\* derive(Clone) for Val: a closure's env is cloned with Scope::clone, a
\* tuple clones both components
RECURSIVE CloneVal(_, _)
CloneVal(fr, v) ==
    CASE v.tag = "Closure" ->
           LET c == Scope_clone(fr, v.env)
           IN  [frames |-> c.frames, val |-> VClosure(v.fun, c.scope, v.cap)]
      [] v.tag = "Tuple" ->
           LET a == CloneVal(fr, v.fst)
               b == CloneVal(a.frames, v.snd)
           IN  [frames |-> b.frames, val |-> VTuple(a.val, b.val)]
      [] OTHER -> [frames |-> fr, val |-> v]

\* Scope::get: the nearest binding, cloned; None when no frame has var
Scope_get(fr, s, var) ==
    LET found == Scope_find(fr, s, var)
    IN  IF found = None THEN [frames |-> fr, val |-> None]
        ELSE CloneVal(fr, found)

---------------------------------------------------------------------------
(* One binary operation on two sampled operands.                           *)

SmallInt == 2

SampleInts ==
    (-SmallInt .. SmallInt) \cup {MinI32, MinI32 + 1, MaxI32 - 1, MaxI32}

SampleLoc == Loc(0, 5)

SampleVals ==
    {VInt(i) : i \in SampleInts}
    \cup {VBool(TRUE), VBool(FALSE), VStr("a"), VStr(""),
          VTuple(VInt(1), VBool(FALSE)),
          VClosure(TFunction(<< >>, TInt(1, Loc(9, 10)), Loc(0, 10)), <<2, 1>>, <<1>>)}

IdleInterp ==
    /\ input = None
    /\ phase = "off"
    /\ ctrl = Idle
    /\ kont = << >>
    /\ out = ""
    /\ outcome = "none"
    /\ exitStatus = None
    /\ printed = << >>

IdleBinary == bop = "Add" /\ blhs = None /\ brhs = None /\ bres = None

IdleScope == scopes = << >> /\ writes = << >>

InitBinary ==
    /\ IdleInterp
    /\ IdleScope
    /\ frames = << >>
    /\ overflowChecks \in BOOLEAN
    /\ bop \in BinaryOps
    /\ blhs \in SampleVals
    /\ brhs \in SampleVals
    /\ bres = None

\* eval(Term::Binary) once both operands are values
ApplyBinary ==
    /\ bres = None
    /\ blhs # None
    /\ bres' = BinaryResult(bop, blhs, brhs, SampleLoc, overflowChecks)
    /\ UNCHANGED <<interpVars, frames, overflowChecks, bop, blhs, brhs, scopeVars>>

NextBinary == ApplyBinary

SpecBinary == InitBinary /\ [][NextBinary]_vars

---------------------------------------------------------------------------
(* Scope test bench: scopes made by default() and clone(), and sets        *)
(* through any of them (mod test, scope_test).                             *)

MaxScopes == 3
MaxSetVal == 2

ScopeNames == {"a", "b"}

InitScope ==
    /\ IdleInterp
    /\ IdleBinary
    /\ overflowChecks = FALSE
    /\ frames = Scope_default(<< >>).frames
    /\ scopes = <<Scope_default(<< >>).scope>>
    /\ writes = <<[of |-> 0, map |-> EmptyFrame]>>

\* s.set(var, Val::Int(v)) on one of the scopes
ScopeSet ==
    \E i \in 1 .. Len(scopes), var \in ScopeNames, v \in 1 .. MaxSetVal :
        /\ frames' = Scope_set(frames, scopes[i], var, VInt(v))
        /\ writes' = [writes EXCEPT ![i].map = (var :> VInt(v)) @@ @]
        /\ UNCHANGED <<interpVars, binVars, overflowChecks, scopes>>

\* let s = scopes[i].clone()
ScopeClone ==
    \E i \in 1 .. Len(scopes) :
        /\ Len(scopes) < MaxScopes
        /\ LET c == Scope_clone(frames, scopes[i])
           IN  /\ frames' = c.frames
               /\ scopes' = Append(scopes, c.scope)
        /\ writes' = Append(writes, [of |-> i, map |-> EmptyFrame])
        /\ UNCHANGED <<interpVars, binVars, overflowChecks>>

NextScope == ScopeSet \/ ScopeClone

SpecScope == InitScope /\ [][NextScope]_vars

\* what was last set for var through scope i or, failing that, through the
\* scope it was cloned from, and so on
RECURSIVE Nearest(_, _)
Nearest(i, var) ==
    IF i = 0 THEN None
    ELSE IF var \in DOMAIN writes[i].map THEN writes[i].map[var]
    ELSE Nearest(writes[i].of, var)

---------------------------------------------------------------------------
(* Sample programs, as the parser hands them over: every node carries the  *)
(* byte range of its text in the source line shown above it.  Operators of *)
(* one precedence nest to the right, as the expected output of test_print  *)
(* ("1 + 2 = 3") shows.                                                    *)

\* print("hello")
Prog_hello ==
    TPrint(TStr("hello", Loc(6, 13)), Loc(0, 14))

\* print(print(1))
Prog_print_print ==
    TPrint(TPrint(TInt(1, Loc(12, 13)), Loc(6, 14)), Loc(0, 15))

\* print((1, false))
Prog_print_tuple ==
    TPrint(TTuple(TInt(1, Loc(7, 8)), TBool(FALSE, Loc(10, 15)), Loc(6, 16)), Loc(0, 17))

\* let f = fn () => { 1 }; print(f)
Prog_print_closure ==
    TLet(Parameter("f", Loc(4, 5)),
      TFunction(<<>>,
        TInt(1, Loc(19, 20)),
        Loc(8, 22)),
      TPrint(TVar("f", Loc(30, 31)), Loc(24, 32)),
      Loc(0, 32))

\* print("1 + 2 = " + 1 + 2)
Prog_print_concat ==
    TPrint(TBinary(TStr("1 + 2 = ", Loc(6, 16)), "Add",
        TBinary(TInt(1, Loc(19, 20)), "Add",
          TInt(2, Loc(23, 24)), Loc(19, 24)), Loc(6, 24)), Loc(0, 25))

\* print((print(1) + print(2), print("x")))
Prog_print_order ==
    TPrint(TTuple(TBinary(TPrint(TInt(1, Loc(13, 14)), Loc(7, 15)), "Add",
          TPrint(TInt(2, Loc(24, 25)), Loc(18, 26)), Loc(7, 26)), TPrint(TStr("x", Loc(34, 37)), Loc(28, 38)), Loc(6, 39)), Loc(0, 40))

\* let a = 1; let b = fn (n) => { let c = 2; let d = fn (n) => { a + c + n }; d(n) }; print(b(1))
Prog_closure ==
    TLet(Parameter("a", Loc(4, 5)),
      TInt(1, Loc(8, 9)),
      TLet(Parameter("b", Loc(15, 16)),
        TFunction(<<Parameter("n", Loc(23, 24))>>,
          TLet(Parameter("c", Loc(35, 36)),
            TInt(2, Loc(39, 40)),
            TLet(Parameter("d", Loc(46, 47)),
              TFunction(<<Parameter("n", Loc(54, 55))>>,
                TBinary(TVar("a", Loc(62, 63)), "Add",
                  TBinary(TVar("c", Loc(66, 67)), "Add",
                    TVar("n", Loc(70, 71)), Loc(66, 71)), Loc(62, 71)),
                Loc(50, 73)),
              TCall(TVar("d", Loc(75, 76)),
                <<TVar("n", Loc(77, 78))>>, Loc(75, 79)),
              Loc(42, 79)),
            Loc(31, 79)),
          Loc(19, 81)),
        TPrint(TCall(TVar("b", Loc(89, 90)),
            <<TInt(1, Loc(91, 92))>>, Loc(89, 93)), Loc(83, 94)),
        Loc(11, 94)),
      Loc(0, 94))

\* let add = fn (a) => { fn (b) => { a + b } }; let addOne = add(1); print(addOne(2))
Prog_currying ==
    TLet(Parameter("add", Loc(4, 7)),
      TFunction(<<Parameter("a", Loc(14, 15))>>,
        TFunction(<<Parameter("b", Loc(26, 27))>>,
          TBinary(TVar("a", Loc(34, 35)), "Add",
            TVar("b", Loc(38, 39)), Loc(34, 39)),
          Loc(22, 41)),
        Loc(10, 43)),
      TLet(Parameter("addOne", Loc(49, 55)),
        TCall(TVar("add", Loc(58, 61)),
          <<TInt(1, Loc(62, 63))>>, Loc(58, 64)),
        TPrint(TCall(TVar("addOne", Loc(72, 78)),
            <<TInt(2, Loc(79, 80))>>, Loc(72, 81)), Loc(66, 82)),
        Loc(45, 82)),
      Loc(0, 82))

\* let f = fn (n) => { if (n < 2) { n } else { f(n - 1) + f(n - 2) } }; f(k)
Prog_fib(k) ==
    TLet(Parameter("f", Loc(4, 5)),
      TFunction(<<Parameter("n", Loc(12, 13))>>,
        TIf(TBinary(TVar("n", Loc(24, 25)), "Lt",
            TInt(2, Loc(28, 29)), Loc(24, 29)),
          TVar("n", Loc(33, 34)),
          TBinary(TCall(TVar("f", Loc(44, 45)),
              <<TBinary(TVar("n", Loc(46, 47)), "Sub",
                TInt(1, Loc(50, 51)), Loc(46, 51))>>, Loc(44, 52)), "Add",
            TCall(TVar("f", Loc(55, 56)),
              <<TBinary(TVar("n", Loc(57, 58)), "Sub",
                TInt(2, Loc(61, 62)), Loc(57, 62))>>, Loc(55, 63)), Loc(44, 63)),
          Loc(20, 65)),
        Loc(8, 67)),
      TCall(TVar("f", Loc(69, 70)),
        <<TInt(k, Loc(71, 72))>>, Loc(69, 73)),
      Loc(0, 73))

\* let f = fn (a, b) => { a }; f(print(1))
Prog_arity_few ==
    TLet(Parameter("f", Loc(4, 5)),
      TFunction(<<Parameter("a", Loc(12, 13)), Parameter("b", Loc(15, 16))>>,
        TVar("a", Loc(23, 24)),
        Loc(8, 26)),
      TCall(TVar("f", Loc(28, 29)),
        <<TPrint(TInt(1, Loc(36, 37)), Loc(30, 38))>>, Loc(28, 39)),
      Loc(0, 39))

\* let g = fn () => { 1 }; g(print(2))
Prog_arity_none ==
    TLet(Parameter("g", Loc(4, 5)),
      TFunction(<<>>,
        TInt(1, Loc(19, 20)),
        Loc(8, 22)),
      TCall(TVar("g", Loc(24, 25)),
        <<TPrint(TInt(2, Loc(32, 33)), Loc(26, 34))>>, Loc(24, 35)),
      Loc(0, 35))

\* let f = fn (a) => { a }; f(1, print(2))
Prog_arity_many ==
    TLet(Parameter("f", Loc(4, 5)),
      TFunction(<<Parameter("a", Loc(12, 13))>>,
        TVar("a", Loc(20, 21)),
        Loc(8, 23)),
      TCall(TVar("f", Loc(25, 26)),
        <<TInt(1, Loc(27, 28)), TPrint(TInt(2, Loc(36, 37)), Loc(30, 38))>>, Loc(25, 39)),
      Loc(0, 39))

\* first(1)
Prog_first_int ==
    TFirst(TInt(1, Loc(6, 7)), Loc(0, 8))

\* second(true)
Prog_second_bool ==
    TSecond(TBool(TRUE, Loc(7, 11)), Loc(0, 12))

\* first(fn () => { 1 })
Prog_first_closure ==
    TFirst(TFunction(<<>>,
        TInt(1, Loc(17, 18)),
        Loc(6, 20)), Loc(0, 21))

\* first((1, 2))
Prog_first_tuple ==
    TFirst(TTuple(TInt(1, Loc(7, 8)), TInt(2, Loc(10, 11)), Loc(6, 12)), Loc(0, 13))

\* second((1, "b"))
Prog_second_tuple ==
    TSecond(TTuple(TInt(1, Loc(8, 9)), TStr("b", Loc(11, 14)), Loc(7, 15)), Loc(0, 16))

\* 7 / 2
Prog_div ==
    TBinary(TInt(7, Loc(0, 1)), "Div",
      TInt(2, Loc(4, 5)), Loc(0, 5))

\* 1 / 0
Prog_div_zero ==
    TBinary(TInt(1, Loc(0, 1)), "Div",
      TInt(0, Loc(4, 5)), Loc(0, 5))

\* "a" / 0
Prog_div_str_zero ==
    TBinary(TStr("a", Loc(0, 3)), "Div",
      TInt(0, Loc(6, 7)), Loc(0, 7))

\* 1 % 0
Prog_rem_zero ==
    TBinary(TInt(1, Loc(0, 1)), "Rem",
      TInt(0, Loc(4, 5)), Loc(0, 5))

\* 2147483647 + 1
Prog_add_overflow ==
    TBinary(TInt(2147483647, Loc(0, 10)), "Add",
      TInt(1, Loc(13, 14)), Loc(0, 14))

\* let x = 1; let g = fn () => { x }; let x = 2; g()
Prog_late_rebind ==
    TLet(Parameter("x", Loc(4, 5)),
      TInt(1, Loc(8, 9)),
      TLet(Parameter("g", Loc(15, 16)),
        TFunction(<<>>,
          TVar("x", Loc(30, 31)),
          Loc(19, 33)),
        TLet(Parameter("x", Loc(39, 40)),
          TInt(2, Loc(43, 44)),
          TCall(TVar("g", Loc(46, 47)),
            <<>>, Loc(46, 49)),
          Loc(35, 49)),
        Loc(11, 49)),
      Loc(0, 49))

\* let g = fn () => { y }; let y = 5; g()
Prog_late_bind ==
    TLet(Parameter("g", Loc(4, 5)),
      TFunction(<<>>,
        TVar("y", Loc(19, 20)),
        Loc(8, 22)),
      TLet(Parameter("y", Loc(28, 29)),
        TInt(5, Loc(32, 33)),
        TCall(TVar("g", Loc(35, 36)),
          <<>>, Loc(35, 38)),
        Loc(24, 38)),
      Loc(0, 38))

\* let x = 1; let g = fn (x) => { x }; let x = 2; g(3)
Prog_shadow_param ==
    TLet(Parameter("x", Loc(4, 5)),
      TInt(1, Loc(8, 9)),
      TLet(Parameter("g", Loc(15, 16)),
        TFunction(<<Parameter("x", Loc(23, 24))>>,
          TVar("x", Loc(31, 32)),
          Loc(19, 34)),
        TLet(Parameter("x", Loc(40, 41)),
          TInt(2, Loc(44, 45)),
          TCall(TVar("g", Loc(47, 48)),
            <<TInt(3, Loc(49, 50))>>, Loc(47, 51)),
          Loc(36, 51)),
        Loc(11, 51)),
      Loc(0, 51))

\* let x = 1; let g = fn () => { let x = 4; x }; let x = 2; g() + x
Prog_shadow_let ==
    TLet(Parameter("x", Loc(4, 5)),
      TInt(1, Loc(8, 9)),
      TLet(Parameter("g", Loc(15, 16)),
        TFunction(<<>>,
          TLet(Parameter("x", Loc(34, 35)),
            TInt(4, Loc(38, 39)),
            TVar("x", Loc(41, 42)),
            Loc(30, 42)),
          Loc(19, 44)),
        TLet(Parameter("x", Loc(50, 51)),
          TInt(2, Loc(54, 55)),
          TBinary(TCall(TVar("g", Loc(57, 58)),
              <<>>, Loc(57, 60)), "Add",
            TVar("x", Loc(63, 64)), Loc(57, 64)),
          Loc(46, 64)),
        Loc(11, 64)),
      Loc(0, 64))

\* if (1) { 2 } else { 3 }
Prog_if_int ==
    TIf(TInt(1, Loc(4, 5)),
      TInt(2, Loc(9, 10)),
      TInt(3, Loc(20, 21)),
      Loc(0, 23))

\* if (1 == 2) { 2 } else { 3 }
Prog_if_false ==
    TIf(TBinary(TInt(1, Loc(4, 5)), "Eq",
        TInt(2, Loc(9, 10)), Loc(4, 10)),
      TInt(2, Loc(14, 15)),
      TInt(3, Loc(25, 26)),
      Loc(0, 28))

\* print(1) + x
Prog_unknown ==
    TBinary(TPrint(TInt(1, Loc(6, 7)), Loc(0, 8)), "Add",
      TVar("x", Loc(11, 12)), Loc(0, 12))

\* 1(2)
Prog_not_function ==
    TCall(TInt(1, Loc(0, 1)),
      <<TInt(2, Loc(2, 3))>>, Loc(0, 4))

\* let x = 1; let x = 2; x
Prog_shadow ==
    TLet(Parameter("x", Loc(4, 5)),
      TInt(1, Loc(8, 9)),
      TLet(Parameter("x", Loc(15, 16)),
        TInt(2, Loc(19, 20)),
        TVar("x", Loc(22, 23)),
        Loc(11, 23)),
      Loc(0, 23))

\* let t = (fn (x) => { x }, 1); first(t)(7)
Prog_tuple_closure ==
    TLet(Parameter("t", Loc(4, 5)),
      TTuple(TFunction(<<Parameter("x", Loc(13, 14))>>,
          TVar("x", Loc(21, 22)),
          Loc(9, 24)), TInt(1, Loc(26, 27)), Loc(8, 28)),
      TCall(TFirst(TVar("t", Loc(36, 37)), Loc(30, 38)),
        <<TInt(7, Loc(39, 40))>>, Loc(30, 41)),
      Loc(0, 41))

\* (fn (x) => { x + 1 })(1)
Prog_literal_call ==
    TCall(TFunction(<<Parameter("x", Loc(5, 6))>>,
        TBinary(TVar("x", Loc(13, 14)), "Add",
          TInt(1, Loc(17, 18)), Loc(13, 18)),
        Loc(1, 20)),
      <<TInt(1, Loc(22, 23))>>, Loc(1, 24))

\* let f = fn (n) => { if (n == 0) { 0 } else { f(0) + n } }; f(3)
Prog_nested_same ==
    TLet(Parameter("f", Loc(4, 5)),
      TFunction(<<Parameter("n", Loc(12, 13))>>,
        TIf(TBinary(TVar("n", Loc(24, 25)), "Eq",
            TInt(0, Loc(29, 30)), Loc(24, 30)),
          TInt(0, Loc(34, 35)),
          TBinary(TCall(TVar("f", Loc(45, 46)),
              <<TInt(0, Loc(47, 48))>>, Loc(45, 49)), "Add",
            TVar("n", Loc(52, 53)), Loc(45, 53)),
          Loc(20, 55)),
        Loc(8, 57)),
      TCall(TVar("f", Loc(59, 60)),
        <<TInt(3, Loc(61, 62))>>, Loc(59, 63)),
      Loc(0, 63))

---------------------------------------------------------------------------
(* eval as a machine.  ctrl is the call of eval being entered (mode        *)
(* "eval"), the Ok value a call returned ("ret"), the Err it returned      *)
(* ("err") or a panic ("panic"); kont holds one entry per call of eval     *)
(* that waits for a sub-term, innermost first.                             *)

Eval(term, scope) == [mode |-> "eval", term |-> term, scope |-> scope]
Ret(v) == [mode |-> "ret", val |-> v]
Fail(e) == [mode |-> "err", err |-> e]
Abort(m) == [mode |-> "panic", message |-> m]

FromResult(r) ==
    CASE r.tag = "Ok" -> Ret(r.val)
      [] r.tag = "Err" -> Fail(r.err)
      [] r.tag = "Panic" -> Abort(r.message)

Entering(kind) == phase = "eval" /\ ctrl.mode = "eval" /\ ctrl.term.kind = kind
Returning(k) ==
    phase = "eval" /\ ctrl.mode = "ret" /\ kont # << >> /\ Head(kont).k = k
Push(f) == <<f>> \o kont
Replace(f) == <<f>> \o Tail(kont)

\* println! without the line feed
printNoNewline(val) == Display(val)

\* println!("{val}")
println(val) == Display(val) \o "\n"

\* the error of a projection, placed at the operand
not_a_tuple_at_operand(t) == RuntimeError_new("não é uma tupla", t.value.location)

\* Err(RuntimeError::new("não é uma tupla", t.location)), t the First / Second node
not_a_tuple(t) == RuntimeError_new("não é uma tupla", t.location)

\* an arity check that only refuses surplus arguments
ArityMismatchSurplus(call, fun) == Len(call.arguments) > Len(fun.parameters)

\* call.arguments.len() != fun.parameters.len()
ArityMismatch(call, fun) == Len(call.arguments) # Len(fun.parameters)

\* fun.parameters.into_iter().zip(call.arguments): the number of pairs
ZipLen(params, args) == IF Len(params) < Len(args) THEN Len(params) ELSE Len(args)

\* Term::Var: scope.get(&v.text), then Ok(val.clone())
Var_value(fr, s, var) ==
    LET g == Scope_get(fr, s, var)
    IN  IF g.val = None THEN g ELSE CloneVal(g.frames, g.val)

EvalInt ==
    /\ Entering("Int")
    /\ ctrl' = Ret(VInt(ctrl.term.value))
    /\ UNCHANGED <<idle, input, phase, kont, frames, out, outcome, exitStatus, printed>>

EvalStr ==
    /\ Entering("Str")
    /\ ctrl' = Ret(VStr(ctrl.term.value))
    /\ UNCHANGED <<idle, input, phase, kont, frames, out, outcome, exitStatus, printed>>

EvalBool ==
    /\ Entering("Bool")
    /\ ctrl' = Ret(VBool(ctrl.term.value))
    /\ UNCHANGED <<idle, input, phase, kont, frames, out, outcome, exitStatus, printed>>

EvalPrint ==
    /\ Entering("Print")
    /\ ctrl' = Eval(ctrl.term.value, ctrl.scope)
    /\ kont' = Push([k |-> "Print"])
    /\ UNCHANGED <<idle, input, phase, frames, out, outcome, exitStatus, printed>>

RetPrint ==
    /\ Returning("Print")
    /\ out' = out \o println(ctrl.val)
    /\ printed' = Append(printed, ctrl.val)
    /\ kont' = Tail(kont)
    /\ UNCHANGED <<idle, input, phase, ctrl, frames, outcome, exitStatus>>

EvalTuple ==
    /\ Entering("Tuple")
    /\ ctrl' = Eval(ctrl.term.first, ctrl.scope)
    /\ kont' = Push([k |-> "TupleFirst", term |-> ctrl.term, scope |-> ctrl.scope])
    /\ UNCHANGED <<idle, input, phase, frames, out, outcome, exitStatus, printed>>

RetTupleFirst ==
    /\ Returning("TupleFirst")
    /\ ctrl' = Eval(Head(kont).term.second, Head(kont).scope)
    /\ kont' = Replace([k |-> "TupleSecond", fst |-> ctrl.val])
    /\ UNCHANGED <<idle, input, phase, frames, out, outcome, exitStatus, printed>>

RetTupleSecond ==
    /\ Returning("TupleSecond")
    /\ ctrl' = Ret(VTuple(Head(kont).fst, ctrl.val))
    /\ kont' = Tail(kont)
    /\ UNCHANGED <<idle, input, phase, frames, out, outcome, exitStatus, printed>>

EvalFirst ==
    /\ Entering("First")
    /\ ctrl' = Eval(ctrl.term.value, ctrl.scope)
    /\ kont' = Push([k |-> "First", term |-> ctrl.term])
    /\ UNCHANGED <<idle, input, phase, frames, out, outcome, exitStatus, printed>>

RetFirst ==
    /\ Returning("First")
    /\ ctrl' = IF ctrl.val.tag = "Tuple" THEN Ret(ctrl.val.fst)
               ELSE Fail(not_a_tuple(Head(kont).term))
    /\ kont' = Tail(kont)
    /\ UNCHANGED <<idle, input, phase, frames, out, outcome, exitStatus, printed>>

EvalSecond ==
    /\ Entering("Second")
    /\ ctrl' = Eval(ctrl.term.value, ctrl.scope)
    /\ kont' = Push([k |-> "Second", term |-> ctrl.term])
    /\ UNCHANGED <<idle, input, phase, frames, out, outcome, exitStatus, printed>>

RetSecond ==
    /\ Returning("Second")
    /\ ctrl' = IF ctrl.val.tag = "Tuple" THEN Ret(ctrl.val.snd)
               ELSE Fail(not_a_tuple(Head(kont).term))
    /\ kont' = Tail(kont)
    /\ UNCHANGED <<idle, input, phase, frames, out, outcome, exitStatus, printed>>

EvalBinary ==
    /\ Entering("Binary")
    /\ ctrl' = Eval(ctrl.term.lhs, ctrl.scope)
    /\ kont' = Push([k |-> "BinaryLhs", term |-> ctrl.term, scope |-> ctrl.scope])
    /\ UNCHANGED <<idle, input, phase, frames, out, outcome, exitStatus, printed>>

RetBinaryLhs ==
    /\ Returning("BinaryLhs")
    /\ ctrl' = Eval(Head(kont).term.rhs, Head(kont).scope)
    /\ kont' = Replace([k |-> "BinaryRhs", term |-> Head(kont).term, lhs |-> ctrl.val])
    /\ UNCHANGED <<idle, input, phase, frames, out, outcome, exitStatus, printed>>

RetBinaryRhs ==
    /\ Returning("BinaryRhs")
    /\ ctrl' = FromResult(BinaryResult(Head(kont).term.op, Head(kont).lhs, ctrl.val,
                                       Head(kont).term.location, overflowChecks))
    /\ kont' = Tail(kont)
    /\ UNCHANGED <<idle, input, phase, frames, out, outcome, exitStatus, printed>>

EvalIf ==
    /\ Entering("If")
    /\ ctrl' = Eval(ctrl.term.condition, ctrl.scope)
    /\ kont' = Push([k |-> "If", term |-> ctrl.term, scope |-> ctrl.scope,
                     location |-> ctrl.term.condition.location])
    /\ UNCHANGED <<idle, input, phase, frames, out, outcome, exitStatus, printed>>

RetIf ==
    /\ Returning("If")
    /\ ctrl' = IF ctrl.val.tag = "Bool"
               THEN Eval(IF ctrl.val.v THEN Head(kont).term.then
                         ELSE Head(kont).term.otherwise, Head(kont).scope)
               ELSE Fail(RuntimeError_new("condição inválida", Head(kont).location))
    /\ kont' = Tail(kont)
    /\ UNCHANGED <<idle, input, phase, frames, out, outcome, exitStatus, printed>>

EvalLet ==
    /\ Entering("Let")
    /\ ctrl' = Eval(ctrl.term.value, ctrl.scope)
    /\ kont' = Push([k |-> "Let", term |-> ctrl.term, scope |-> ctrl.scope])
    /\ UNCHANGED <<idle, input, phase, frames, out, outcome, exitStatus, printed>>

RetLet ==
    /\ Returning("Let")
    /\ frames' = Scope_set(frames, Head(kont).scope, Head(kont).term.name.text, ctrl.val)
    /\ ctrl' = Eval(Head(kont).term.next, Head(kont).scope)
    /\ kont' = Tail(kont)
    /\ UNCHANGED <<idle, input, phase, out, outcome, exitStatus, printed>>

EvalVar ==
    /\ Entering("Var")
    /\ LET got == Var_value(frames, ctrl.scope, ctrl.term.text)
       IN  /\ frames' = got.frames
           /\ ctrl' = IF got.val = None THEN Fail(unknow_identifier(ctrl.term))
                      ELSE Ret(got.val)
    /\ UNCHANGED <<idle, input, phase, kont, out, outcome, exitStatus, printed>>

EvalFunction ==
    /\ Entering("Function")
    /\ LET env == Scope_clone(frames, ctrl.scope)
       IN  /\ frames' = env.frames
           /\ ctrl' = Ret(VClosure(ctrl.term, env.scope, ctrl.scope))
    /\ UNCHANGED <<idle, input, phase, kont, out, outcome, exitStatus, printed>>

EvalCall ==
    /\ Entering("Call")
    /\ ctrl' = Eval(ctrl.term.callee, ctrl.scope)
    /\ kont' = Push([k |-> "Callee", term |-> ctrl.term, scope |-> ctrl.scope])
    /\ UNCHANGED <<idle, input, phase, frames, out, outcome, exitStatus, printed>>

\* the callee is not a closure
RetCalleeNotFunction ==
    /\ Returning("Callee")
    /\ ctrl.val.tag # "Closure"
    /\ ctrl' = Fail(RuntimeError_new("não é uma função", Head(kont).term.location))
    /\ kont' = Tail(kont)
    /\ UNCHANGED <<idle, input, phase, frames, out, outcome, exitStatus, printed>>

\* the early return of the arity check
RetCalleeArity ==
    /\ Returning("Callee")
    /\ ctrl.val.tag = "Closure"
    /\ ArityMismatch(Head(kont).term, ctrl.val.fun)
    /\ ctrl' = Fail(invalid_number_of_arguments(ctrl.val.fun, Head(kont).term.location))
    /\ kont' = Tail(kont)
    /\ UNCHANGED <<idle, input, phase, frames, out, outcome, exitStatus, printed>>

\* the body of a call once every (param, arg) pair is bound: eval(fun.value, &env)
EnterBody(fun, env, cap, args) ==
    /\ ctrl' = Eval(fun.value, env)
    /\ kont' = Replace([k |-> "Body", fun |-> fun, env |-> env, cap |-> cap,
                        args |-> args])

\* the arity check passed: the first argument is evaluated in the caller's
\* scope, or the body is entered when there is no pair to bind
RetCalleeBind ==
    /\ Returning("Callee")
    /\ ctrl.val.tag = "Closure"
    /\ ~ArityMismatch(Head(kont).term, ctrl.val.fun)
    /\ LET call == Head(kont).term
           fun == ctrl.val.fun
       IN  IF ZipLen(fun.parameters, call.arguments) = 0
           THEN EnterBody(fun, ctrl.val.env, ctrl.val.cap, << >>)
           ELSE /\ ctrl' = Eval(call.arguments[1], Head(kont).scope)
                /\ kont' = Replace([k |-> "Arg", term |-> call, scope |-> Head(kont).scope,
                                    fun |-> fun, env |-> ctrl.val.env,
                                    cap |-> ctrl.val.cap, args |-> << >>])
    /\ UNCHANGED <<idle, input, phase, frames, out, outcome, exitStatus, printed>>

\* env.set(param.text, eval(arg, scope)?), then the next pair or the body
RetArg ==
    /\ Returning("Arg")
    /\ LET f == Head(kont)
           i == Len(f.args) + 1
           args == Append(f.args, ctrl.val)
       IN  /\ frames' = Scope_set(frames, f.env, f.fun.parameters[i].text, ctrl.val)
           /\ IF i < ZipLen(f.fun.parameters, f.term.arguments)
              THEN /\ ctrl' = Eval(f.term.arguments[i + 1], f.scope)
                   /\ kont' = Replace([f EXCEPT !.args = args])
              ELSE EnterBody(f.fun, f.env, f.cap, args)
    /\ UNCHANGED <<idle, input, phase, out, outcome, exitStatus, printed>>

\* the body's value is the call's value; env goes out of scope
RetBody ==
    /\ Returning("Body")
    /\ kont' = Tail(kont)
    /\ UNCHANGED <<idle, input, phase, ctrl, frames, out, outcome, exitStatus, printed>>

\* the ? operator: an Err returns from the waiting call as well
Propagate ==
    /\ phase = "eval"
    /\ ctrl.mode = "err"
    /\ kont # << >>
    /\ kont' = Tail(kont)
    /\ UNCHANGED <<idle, input, phase, ctrl, frames, out, outcome, exitStatus, printed>>

---------------------------------------------------------------------------
(* main: the input is deserialized, evaluated in a fresh Scope, and an Err *)
(* is reported on standard output.                                         *)

FibMax == 10

File(name, arg, expression) ==
    [tag |-> "File", name |-> name, arg |-> arg, expression |-> expression]

Malformed == [tag |-> "Malformed"]

Programs ==
    {File("fib", k, Prog_fib(k)) : k \in 0 .. FibMax}
    \cup {File("hello", 0, Prog_hello),
          File("print_print", 0, Prog_print_print),
          File("print_tuple", 0, Prog_print_tuple),
          File("print_closure", 0, Prog_print_closure),
          File("print_concat", 0, Prog_print_concat),
          File("print_order", 0, Prog_print_order),
          File("closure", 0, Prog_closure),
          File("currying", 0, Prog_currying),
          File("arity_few", 0, Prog_arity_few),
          File("arity_none", 0, Prog_arity_none),
          File("arity_many", 0, Prog_arity_many),
          File("first_int", 0, Prog_first_int),
          File("second_bool", 0, Prog_second_bool),
          File("first_closure", 0, Prog_first_closure),
          File("first_tuple", 0, Prog_first_tuple),
          File("second_tuple", 0, Prog_second_tuple),
          File("div", 0, Prog_div),
          File("div_zero", 0, Prog_div_zero),
          File("div_str_zero", 0, Prog_div_str_zero),
          File("rem_zero", 0, Prog_rem_zero),
          File("add_overflow", 0, Prog_add_overflow),
          File("late_rebind", 0, Prog_late_rebind),
          File("late_bind", 0, Prog_late_bind),
          File("shadow_param", 0, Prog_shadow_param),
          File("shadow_let", 0, Prog_shadow_let),
          File("if_int", 0, Prog_if_int),
          File("if_false", 0, Prog_if_false),
          File("unknown", 0, Prog_unknown),
          File("not_function", 0, Prog_not_function),
          File("shadow", 0, Prog_shadow),
          File("tuple_closure", 0, Prog_tuple_closure),
          File("literal_call", 0, Prog_literal_call),
          File("nested_same", 0, Prog_nested_same)}

\* exit status of a main that returns
ExitSuccess == 0
\* exit status of a main that panics
ExitPanic == 101

\* the report miette renders from the error and the source text; only its
\* message is modelled
MietteReport(error) == "Error: " \o error.message

Init ==
    /\ input \in Programs \cup {Malformed}
    /\ phase = "start"
    /\ ctrl = Idle
    /\ kont = << >>
    /\ frames = << >>
    /\ out = ""
    /\ outcome = "none"
    /\ exitStatus = None
    /\ printed = << >>
    /\ overflowChecks \in BOOLEAN
    /\ IdleBinary
    /\ IdleScope

\* File::deserialize(..).expect("Programa inválido") on input that is no File
MainInvalidProgram ==
    /\ phase = "start"
    /\ input.tag = "Malformed"
    /\ phase' = "exited"
    /\ outcome' = "Malformed"
    /\ exitStatus' = ExitPanic
    /\ UNCHANGED <<idle, input, ctrl, kont, frames, out, printed>>

\* let scope = Scope::default(); eval(term, &scope)
MainEval ==
    /\ phase = "start"
    /\ input.tag = "File"
    /\ LET root == Scope_default(frames)
       IN  /\ frames' = root.frames
           /\ ctrl' = Eval(input.expression, root.scope)
    /\ phase' = "eval"
    /\ UNCHANGED <<idle, input, kont, out, outcome, exitStatus, printed>>

\* eval returned Ok: main returns
MainOk ==
    /\ phase = "eval"
    /\ ctrl.mode = "ret"
    /\ kont = << >>
    /\ phase' = "exited"
    /\ outcome' = "Success"
    /\ exitStatus' = ExitSuccess
    /\ UNCHANGED <<idle, input, ctrl, kont, frames, out, printed>>

\* eval returned Err: the report (source readable) or the message is printed,
\* and main returns
MainReport ==
    /\ phase = "eval"
    /\ ctrl.mode = "err"
    /\ kont = << >>
    /\ \E readable \in BOOLEAN :
          out' = out \o (IF readable THEN MietteReport(ctrl.err)
                         ELSE ctrl.err.message \o "\n")
    /\ phase' = "exited"
    /\ outcome' = "EvalFailure"
    /\ exitStatus' = ExitSuccess
    /\ UNCHANGED <<idle, input, ctrl, kont, frames, printed>>

\* an arithmetic panic inside eval ends the process
MainPanic ==
    /\ phase = "eval"
    /\ ctrl.mode = "panic"
    /\ phase' = "exited"
    /\ outcome' = "Panic"
    /\ exitStatus' = ExitPanic
    /\ UNCHANGED <<idle, input, ctrl, kont, frames, out, printed>>

Next ==
    \/ MainInvalidProgram \/ MainEval \/ MainOk \/ MainReport \/ MainPanic
    \/ EvalInt \/ EvalStr \/ EvalBool
    \/ EvalPrint \/ RetPrint
    \/ EvalTuple \/ RetTupleFirst \/ RetTupleSecond
    \/ EvalFirst \/ RetFirst \/ EvalSecond \/ RetSecond
    \/ EvalBinary \/ RetBinaryLhs \/ RetBinaryRhs
    \/ EvalIf \/ RetIf
    \/ EvalLet \/ RetLet
    \/ EvalVar \/ EvalFunction
    \/ EvalCall \/ RetCalleeNotFunction \/ RetCalleeArity \/ RetCalleeBind
    \/ RetArg \/ RetBody
    \/ Propagate

Spec == Init /\ [][Next]_vars

---------------------------------------------------------------------------
(* Properties.                                                             *)

RECURSIVE Fib(_)
Fib(k) == IF k < 2 THEN k ELSE Fib(k - 1) + Fib(k - 2)

Exited(name) == phase = "exited" /\ input.tag = "File" /\ input.name = name

\* C1: the program `let f = fn (n) => { if (n < 2) { n } else { f(n - 1) +
\* f(n - 2) } }; f(k)` evaluates to Int(fib(k)) for every k in 0 .. FibMax:
\* f resolves inside its own body and each invocation keeps its own n.
C1_FibonacciResult ==
    Exited("fib") => outcome = "Success" /\ ctrl = Ret(VInt(Fib(input.arg)))

C1_Witness == Exited("fib") /\ input.arg = 10 /\ ctrl = Ret(VInt(55))

RECURSIVE Lines(_)
Lines(vals) ==
    IF vals = << >> THEN ""
    ELSE Lines(SubSeq(vals, 1, Len(vals) - 1)) \o Display(vals[Len(vals)]) \o "\n"

RECURSIVE Concat(_)
Concat(vals) ==
    IF vals = << >> THEN ""
    ELSE Concat(SubSeq(vals, 1, Len(vals) - 1)) \o Display(vals[Len(vals)])

\* what tests/execution.rs expects on standard output, before its trim_end
ExpectedStdout ==
    [hello |-> "hello\n",
     print_print |-> "1\n1\n",
     print_tuple |-> "(1, false)\n",
     print_closure |-> "<#closure>\n",
     print_concat |-> "1 + 2 = 3\n",
     print_order |-> "1\n2\nx\n(3, x)\n",
     closure |-> "4\n",
     currying |-> "3\n"]

Evaluating == phase = "eval" \/ (phase = "exited" /\ outcome = "Success")

\* C2 (as amended): while eval runs and after a successful run, standard
\* output is the Display form of every evaluated print operand, each followed
\* by one line feed, in evaluation order (an inner print before the outer
\* one); the programs of test_print produce the text the tests expect.
C2_PrintLines ==
    /\ Evaluating => out = Lines(printed)
    /\ \A name \in DOMAIN ExpectedStdout :
          Exited(name) => outcome = "Success" /\ out = ExpectedStdout[name]

C2_Witness ==
    Exited("print_order") /\ outcome = "Success" /\ out = "1\n2\nx\n(3, x)\n"

\* C2 as stated: print adds no line feed or other separator, so standard
\* output is the bare concatenation of the Display forms.
C2_Original == Evaluating => out = Concat(printed)

ArityPending ==
    /\ Returning("Callee")
    /\ ctrl.val.tag = "Closure"
    /\ Len(Head(kont).term.arguments) # Len(ctrl.val.fun.parameters)

ArityFailed ==
    ctrl.mode = "err" /\ ctrl.err.kind = "InvalidNumberOfArguments"

\* C3: a call whose argument count differs from the closure's parameter
\* count fails with InvalidNumberOfArguments in the very next step, with no
\* frame changed and nothing printed; and while that error travels to main
\* no frame changes and no print is emitted either (no argument is evaluated).
C3_ArityMismatchBindsNothing ==
    [][/\ ArityPending =>
             /\ ctrl'.mode = "err"
             /\ ctrl'.err.kind = "InvalidNumberOfArguments"
             /\ ctrl'.err.location = Head(kont).term.location
             /\ frames' = frames
             /\ out' = out
             /\ printed' = printed
       /\ ArityFailed => ctrl' = ctrl /\ frames' = frames /\ printed' = printed]_vars

C3_Witness ==
    /\ Exited("arity_few")
    /\ outcome = "EvalFailure"
    /\ ArityFailed
    /\ printed = << >>
    /\ \A i \in 1 .. Len(frames) : DOMAIN frames[i] \subseteq {"f"}

\* C4: the exit status tells the three outcomes apart: success, evaluation
\* failure and malformed input end with pairwise distinct statuses.
C4_ExitStatusDistinguishes ==
    phase = "exited" =>
        /\ outcome = "Success" => exitStatus = ExitSuccess
        /\ outcome = "Malformed" => exitStatus # ExitSuccess
        /\ outcome = "EvalFailure" => exitStatus \notin {ExitSuccess, ExitPanic}

FailedProjection ==
    /\ Returning("First") \/ Returning("Second")
    /\ ctrl.val.tag # "Tuple"

\* C5 (as amended): First or Second applied to a value that is not a Tuple
\* fails with an ArgumentError whose location is the span of the First /
\* Second node itself.
C5_ProjectionErrorAtNode ==
    [][FailedProjection =>
          /\ ctrl'.mode = "err"
          /\ ctrl'.err.kind = "ArgumentError"
          /\ ctrl'.err.location = Head(kont).term.location]_vars

C5_Witness ==
    /\ Exited("first_int")
    /\ ctrl.mode = "err"
    /\ ctrl.err.kind = "ArgumentError"
    /\ ctrl.err.location = Loc(0, 8)
    /\ input.expression.value.location = Loc(6, 7)

\* C5 as stated: the error's location is the span of the operand subtree.
C5_Original ==
    [][FailedProjection =>
          /\ ctrl'.mode = "err"
          /\ ctrl'.err.kind = "ArgumentError"
          /\ ctrl'.err.location = Head(kont).term.value.location]_vars

Applied(op) == bres # None /\ bop = op

\* C6 (as amended): div with right operand Int(0) fails with DivisionByZero
\* when the left operand is an Int, and with InvalidBinaryOperation when the
\* left operand is any other value.
C6_DivByZeroNeedsIntLeft ==
    Applied("Div") /\ brhs = VInt(0) =>
        bres = IF blhs.tag = "Int" THEN Err(division_by_zero(SampleLoc))
               ELSE Err(invalid_binary_operation(SampleLoc))

C6_Witness ==
    /\ Applied("Div")
    /\ blhs = VStr("a")
    /\ brhs = VInt(0)
    /\ bres = Err(invalid_binary_operation(SampleLoc))

\* C6 as stated: div with right operand Int(0) fails with DivisionByZero
\* whatever the left operand is.
C6_Original ==
    Applied("Div") /\ brhs = VInt(0) => bres = Err(division_by_zero(SampleLoc))

\* C7: a set through a scope writes that scope's current frame only: get on
\* any scope returns what was last set through it or, failing that, through
\* the scope it was cloned from (and so on up), so no set through a clone
\* changes what the scope it was cloned from returns; get allocates nothing.
C7_SetWritesCurrentFrame ==
    \A i \in 1 .. Len(scopes), var \in ScopeNames :
        Scope_get(frames, scopes[i], var) = [frames |-> frames, val |-> Nearest(i, var)]

\* the end of scope_test
C7_Witness ==
    /\ Len(scopes) = 3
    /\ writes[2].of = 1
    /\ writes[3].of = 2
    /\ Scope_get(frames, scopes[1], "a").val = VInt(1)
    /\ Scope_get(frames, scopes[2], "a").val = VInt(2)
    /\ Scope_get(frames, scopes[3], "a").val = VInt(2)
    /\ Scope_get(frames, scopes[3], "b").val = VInt(2)
    /\ Scope_get(frames, scopes[1], "b").val = VInt(2)

\* the names a let binds in the frame of the scope t is evaluated in
RECURSIVE LetNames(_)
LetNames(t) ==
    CASE t.kind = "Let" -> {t.name.text} \cup LetNames(t.value) \cup LetNames(t.next)
      [] t.kind \in {"Print", "First", "Second"} -> LetNames(t.value)
      [] t.kind = "Binary" -> LetNames(t.lhs) \cup LetNames(t.rhs)
      [] t.kind = "Tuple" -> LetNames(t.first) \cup LetNames(t.second)
      [] t.kind = "If" ->
           LetNames(t.condition) \cup LetNames(t.then) \cup LetNames(t.otherwise)
      [] t.kind = "Call" ->
           LetNames(t.callee)
           \cup UNION {LetNames(t.arguments[i]) : i \in 1 .. Len(t.arguments)}
      [] OTHER -> {}

ParamNames(fun) == {fun.parameters[i].text : i \in 1 .. Len(fun.parameters)}

RECURSIVE ClosuresIn(_)
ClosuresIn(v) ==
    CASE v.tag = "Closure" -> {v}
      [] v.tag = "Tuple" -> ClosuresIn(v.fst) \cup ClosuresIn(v.snd)
      [] OTHER -> {}

\* every closure of the state: bound in a frame, just returned, held by a
\* waiting call, or being called
AllClosures ==
    UNION {UNION {ClosuresIn(frames[i][x]) : x \in DOMAIN frames[i]} :
             i \in 1 .. Len(frames)}
    \cup (IF ctrl.mode = "ret" THEN ClosuresIn(ctrl.val) ELSE {})
    \cup UNION {CASE kont[i].k = "TupleSecond" -> ClosuresIn(kont[i].fst)
                  [] kont[i].k = "BinaryRhs" -> ClosuresIn(kont[i].lhs)
                  [] kont[i].k \in {"Arg", "Body"} ->
                       {VClosure(kont[i].fun, kont[i].env, kont[i].cap)}
                       \cup UNION {ClosuresIn(kont[i].args[j]) :
                                     j \in 1 .. Len(kont[i].args)}
                  [] OTHER -> {} : i \in 1 .. Len(kont)}

BoundNames == UNION {DOMAIN frames[i] : i \in 1 .. Len(frames)}

\* C8: a closure shares the frames of the scope it was captured in: for
\* every closure and every name that is neither one of its parameters nor
\* let-bound in its body, the binding seen through the closure's environment
\* is the binding the capturing scope has now, so a binding made there after
\* the capture is what a later call reads.
C8_ClosureSharesCapturedFrames ==
    /\ \A c \in AllClosures :
          \A x \in BoundNames \ (ParamNames(c.fun) \cup LetNames(c.fun.value)) :
              Scope_find(frames, c.env, x) = Scope_find(frames, c.cap, x)
    /\ Exited("late_rebind") => ctrl = Ret(VInt(2))
    /\ Exited("late_bind") => ctrl = Ret(VInt(5))

\* the body of g returns the x bound after g was captured
C8_Witness ==
    /\ phase = "eval"
    /\ input.name = "late_rebind"
    /\ Returning("Body")
    /\ ctrl.val = VInt(2)
    /\ Scope_find(frames, Head(kont).cap, "x") = VInt(2)

\* the calls in progress: binding their arguments or evaluating their body
ActiveCalls == {i \in 1 .. Len(kont) : kont[i].k \in {"Arg", "Body"}}

\* the frame made when the function literal was evaluated
CaptureFrame(call) == call.env[Len(call.env) - Len(call.cap)]

\* the frame the call binds its parameters in
ParamFrame(call) == call.env[1]

\* C9 (as amended): every call binds its parameters in a frame of its own:
\* two calls in progress never share the frame, and every parameter of a call
\* in progress still holds the argument that call bound (unless the body
\* rebinds the name with a let, or a later parameter has the same name).
C9_InvocationsIsolated ==
    /\ \A i, j \in ActiveCalls : i # j => ParamFrame(kont[i]) # ParamFrame(kont[j])
    /\ \A i \in ActiveCalls : \A p \in 1 .. Len(kont[i].args) :
          LET name == kont[i].fun.parameters[p].text
          IN  \/ name \in LetNames(kont[i].fun.value)
              \/ \E q \in p + 1 .. Len(kont[i].args) :
                    kont[i].fun.parameters[q].text = name
              \/ Scope_find(frames, kont[i].env, name) = kont[i].args[p]

\* f(3) of nested_same has read its own n = 3 after the inner f(0) bound n = 0
\* and returned 0
C9_Witness ==
    /\ phase = "eval"
    /\ input.name = "nested_same"
    /\ Returning("BinaryRhs")
    /\ Head(kont).lhs = VInt(0)
    /\ ctrl.val = VInt(3)
    /\ kont[2].k = "Body"
    /\ kont[2].args = <<VInt(3)>>

\* C9 as stated: a call binds its parameters in the closure's captured frame,
\* so calls of the same closure that overlap bind them in the same frame.
C9_Original ==
    \A i, j \in ActiveCalls :
        /\ kont[i].fun = kont[j].fun
        /\ CaptureFrame(kont[i]) = CaptureFrame(kont[j])
        => ParamFrame(kont[i]) = ParamFrame(kont[j])

ArithmeticOps == {"Add", "Sub", "Mul", "Div", "Rem"}

Overflows(op, a, b) ==
    CASE op = "Add" -> AddOverflows(a, b)
      [] op = "Sub" -> SubOverflows(a, b)
      [] op = "Mul" -> MulOverflows(a, b)
      [] OTHER -> FALSE

\* C10: an arithmetic operation on two Int operands always ends inside the
\* Result type: Ok(Int) with the mathematical result, or an Err; never a
\* panic, and never a wrapped result.
C10_ArithmeticEndsInResult ==
    /\ bres # None
    /\ bop \in ArithmeticOps
    /\ BothInt(blhs, brhs)
    => /\ bres.tag \in {"Ok", "Err"}
       /\ bres.tag = "Err" => bres.err.kind \in ErrorKinds
       /\ bres.tag = "Ok" => bres.val.tag = "Int" /\ ~Overflows(bop, blhs.v, brhs.v)

=============================================================================
